---- MODULE Spec2Model ----
(***************************************************************************)
(* Model of quickAnalysis.py: the quickAnalysis class (constructor,        *)
(* the run* methods, runAll) and the command-line interface cli().         *)
(*                                                                         *)
(* The working directory is a set of files <<name, suffix>>, standing for  *)
(* the path name+suffix the code builds by concatenation.  Only files      *)
(* that some existence check of the program reads are tracked.  The        *)
(* external tools are black boxes: an invocation is recorded in the trace  *)
(* and either writes its output file or fails without writing it.          *)
(***************************************************************************)
EXTENDS Integers, Sequences, FiniteSets, TLC

\* ---------------------------------------------------------------- bounds
MaxObjects == 1      \* objects constructed in a session that calls methods
MaxConstructed == 2  \* objects constructed in a session of constructor calls
MaxCalls == 1        \* top-level method calls made from Python in one session
MaxArgs == 2         \* length of sys.argv[1:]

\* ------------------------------------------------------------- vocabulary
Bases == {"srcA", "srcB"}
OptTokens == {"-c", "-m", "-M"}
Names == Bases \cup OptTokens \cup {"example"}

Catalogs == <<"", "2FGL+diffuse">>

Tools == {"gtselect", "gtmktime", "gtltcube", "gtexpmap", "gtbin",
          "gtexpcube2", "gtsrcmaps", "gtmodel"}

AbsentCfg == [exists |-> FALSE, common |-> FALSE, analysis |-> FALSE,
              base |-> "", binned |-> FALSE]

NoConf == [base |-> "", binned |-> FALSE]

\* the dictionary objects a caller may hold and pass as commonConfig
CallerDicts == {"d1", "d2"}

\* a dictionary the caller has not created yet
NoDict == [made |-> FALSE, base |-> "", binned |-> FALSE]

\* the argument a caller passes for commonConfig: nothing (the default) or
\* one of its own dictionary objects, created with the given 'binned'
CallerConfs == {[given |-> FALSE, dict |-> "default", binned |-> FALSE]}
               \cup {[given |-> TRUE, dict |-> d, binned |-> b] :
                        d \in CallerDicts, b \in BOOLEAN}

VARIABLES
    files,          \* set of existing files <<name, suffix>>
    cfg,            \* cfg[name]: content of name.cfg
    defaultCommon,  \* the dict object that is commonConfig's default value
    callerDicts,    \* the dict objects of the caller, by identity
    objects,        \* quickAnalysis objects created from Python
    cur,            \* the running top-level call: object, run flag, kind
    pc,             \* position: "idle", a method name, or "crashed"
    trace,          \* methods entered and tools invoked by the current call
    result,         \* what the last top-level call gave back to its caller
    srcMapsMissing, \* input files absent at the last gtsrcmaps invocation
    argv,           \* sys.argv[1:] of a command-line run
    cliArgs,        \* basenames the command-line loop has still to process
    cliOut,         \* how cli() ended
    calls           \* top-level method calls made from Python so far

vars == <<files, cfg, defaultCommon, callerDicts, objects, cur, pc, trace,
          result,
          srcMapsMissing, argv, cliArgs, cliOut, calls>>

\* ------------------------------------------------------- quickUtils helpers
\* checkForFiles raises FileNotFound when one of the files does not exist
checkForFiles(fs, fileList) == fileList \subseteq fs

\* runCommand runs the tool when run is true, otherwise prints the command
runCommand(tr, fs, tool, out, run, ok) ==
    [trace |-> IF run THEN Append(tr, tool) ELSE tr,
     files |-> IF run /\ ok THEN fs \cup out ELSE fs]

\* readConfig raises FileNotFound when <base>.cfg does not exist
readConfig(base) ==
    [raised |-> ~cfg[base].exists, common |-> cfg[base], analysis |-> cfg[base]]

\* checkConfig raises KeyError when a key of the reference dictionary is
\* absent from the dictionary that was read, else it returns the latter
checkConfig(present) == [raised |-> ~present]

\* quickUtils.generateXMLmodel: keeps an existing <base>_model.xml, else
\* builds it from the catalogue files, raising FileNotFound without them
utilsGenerateXMLmodel(fs, base) ==
    IF checkForFiles(fs, {<<base, "_model.xml">>})
    THEN [raised |-> FALSE, files |-> fs]
    ELSE IF checkForFiles(fs, {<<base, "_filtered_gti.fits">>, Catalogs})
         THEN [raised |-> FALSE, files |-> fs \cup {<<base, "_model.xml">>}]
         ELSE [raised |-> TRUE, files |-> fs]

\* quickUtils.writeConfig writes the dictionaries to <base>.cfg
utilsWriteConfig(c, conf) ==
    [c EXCEPT ![conf.base] = [exists |-> TRUE, common |-> TRUE,
                              analysis |-> TRUE, base |-> conf.base,
                              binned |-> conf.binned]]

\* ------------------------------------------------------------ constructor
\* quickAnalysis.__init__: the object, and the default dictionary and the
\* caller's dictionaries after it.  Line 78 writes base into the dictionary
\* object that was passed; line 97 stores a reference to a dictionary
\* object: the one passed, or the one read from the config file ("own")
quickAnalysisInit(base, configFile, callerConf, dflt, cds) ==
    LET dflt1 == IF callerConf.given THEN dflt ELSE [dflt EXCEPT !.base = base]
        cds1 == IF callerConf.given
                THEN [cds EXCEPT ![callerConf.dict].base = base]
                ELSE cds
        unset == [base |-> base, hasConf |-> FALSE, ref |-> "none",
                  own |-> NoConf]
        rd == readConfig(base)
    IN  IF configFile
        THEN IF rd.raised
             THEN [obj |-> unset, dflt |-> dflt1, cds |-> cds1]
             ELSE IF checkConfig(rd.common.common).raised
             THEN [obj |-> unset, dflt |-> dflt1, cds |-> cds1]
             ELSE IF checkConfig(rd.analysis.analysis).raised
             THEN [obj |-> unset, dflt |-> dflt1, cds |-> cds1]
             ELSE [obj |-> [base |-> base, hasConf |-> TRUE, ref |-> "own",
                            own |-> [base |-> rd.common.base,
                                     binned |-> rd.common.binned]],
                   dflt |-> dflt1, cds |-> cds1]
        ELSE [obj |-> [base |-> base, hasConf |-> TRUE,
                       ref |-> callerConf.dict, own |-> NoConf],
              dflt |-> dflt1, cds |-> cds1]

\* self.commonConf of an object: the dictionary it refers to
commonConfOf(o, dflt, cds) ==
    IF o.ref = "default" THEN dflt
    ELSE IF o.ref \in CallerDicts
    THEN [base |-> cds[o.ref].base, binned |-> cds[o.ref].binned]
    ELSE o.own
commonConf(o) == commonConfOf(o, defaultCommon, callerDicts)

\* ------------------------------------------------------------------ runAll
runAllRequired_ListOnly(base) == {<<base, ".list">>}

\* the files runAll requires before it starts
runAllRequired(base) == {<<base, ".list">>, <<base, "_SC.fits">>}

runAllSequence_Swapped == <<"runGTI", "runSelect", "runLTCube">>

\* the steps runAll always takes, in order
runAllSequence == <<"runSelect", "runGTI", "runLTCube">>

runAllBranch_Inverted(binned) ==
    IF binned THEN <<"runExpMap">>
    ELSE <<"runCCUBE", "runExpCube", "runSrcMaps">>

\* the steps of the branch commonConf['binned'] selects
runAllBranch(binned) ==
    IF binned THEN <<"runCCUBE", "runExpCube", "runSrcMaps">>
    ELSE <<"runExpMap">>

\* the files runSrcMaps checks before it invokes gtsrcmaps
runSrcMapsRequired(base) ==
    {<<base, "_CCUBE.fits">>, <<base, "_ltcube.fits">>,
     <<base, "_BinnedExpMap.fits">>, <<base, "_SC.fits">>}

\* the files gtsrcmaps is handed as inputs
runSrcMapsInputs(base) ==
    {<<base, "_SC.fits">>, <<base, "_ltcube.fits">>, <<base, "_CCUBE.fits">>,
     <<base, "_model.xml">>, <<base, "_BinnedExpMap.fits">>}

IndexOf(seq, x) == CHOOSE i \in 1..Len(seq) : seq[i] = x
InSeq(seq, x) == \E i \in 1..Len(seq) : seq[i] = x

\* where control goes when method m returns
NextStep(m, binned) ==
    IF ~cur.all THEN "idle"
    ELSE IF InSeq(runAllSequence, m)
    THEN IF IndexOf(runAllSequence, m) < Len(runAllSequence)
         THEN runAllSequence[IndexOf(runAllSequence, m) + 1]
         ELSE runAllBranch(binned)[1]
    ELSE IF InSeq(runAllBranch(binned), m)
            /\ IndexOf(runAllBranch(binned), m) < Len(runAllBranch(binned))
    THEN runAllBranch(binned)[IndexOf(runAllBranch(binned), m) + 1]
    ELSE "idle"

\* ------------------------------------------------------------ initial state
DefaultCommonConfig == [base |-> "MySource", binned |-> FALSE]

UnsetObject == [base |-> "", hasConf |-> FALSE, ref |-> "none", own |-> NoConf]

NoCall == [obj |-> UnsetObject, run |-> FALSE, all |-> FALSE]

\* files that may be in the working directory before the program starts
InitFiles == {<<"srcA", ".list">>, <<"srcA", "_SC.fits">>,
              <<"srcA", "_model.xml">>, Catalogs}

\* contents srcA.cfg may have before the program starts
InitCfgs == {AbsentCfg,
             [exists |-> TRUE, common |-> FALSE, analysis |-> TRUE,
              base |-> "srcA", binned |-> FALSE],
             [exists |-> TRUE, common |-> TRUE, analysis |-> FALSE,
              base |-> "srcA", binned |-> FALSE]}
            \cup {[exists |-> TRUE, common |-> TRUE, analysis |-> TRUE,
                   base |-> "srcA", binned |-> b] : b \in BOOLEAN}

Init ==
    /\ files \in SUBSET InitFiles
    /\ \E c \in InitCfgs :
          cfg = [n \in Names |-> IF n = "srcA" THEN c ELSE AbsentCfg]
    /\ defaultCommon = DefaultCommonConfig
    /\ callerDicts = [d \in CallerDicts |-> NoDict]
    /\ objects = <<>>
    /\ cur = NoCall
    /\ pc = "idle"
    /\ trace = <<>>
    /\ result = "none"
    /\ srcMapsMissing = {}
    /\ argv = <<>>
    /\ cliArgs = <<>>
    /\ cliOut = "none"
    /\ calls = 0

\* ------------------------------------------------------ calls from Python
InPython == pc = "idle" /\ cliOut = "none"

\* the caller's dictionaries when callerConf is passed: the dictionary
\* named is created by the caller if it does not exist yet
PassedDicts(callerConf, cds) ==
    IF callerConf.given /\ ~cds[callerConf.dict].made
    THEN [cds EXCEPT ![callerConf.dict] =
             [made |-> TRUE, base |-> "", binned |-> callerConf.binned]]
    ELSE cds

\* qA = quickAnalysis(base, configFile, commonConfig = ...)
Construct(base, configFile, callerConf) ==
    /\ InPython
    /\ (callerConf.given /\ callerDicts[callerConf.dict].made)
          => callerConf.binned = callerDicts[callerConf.dict].binned
    /\ LET r == quickAnalysisInit(base, configFile, callerConf, defaultCommon,
                                  PassedDicts(callerConf, callerDicts))
       IN  /\ objects' = Append(objects, r.obj)
           /\ defaultCommon' = r.dflt
           /\ callerDicts' = r.cds
    /\ UNCHANGED <<files, cfg, cur, pc, trace, result, srcMapsMissing,
                   argv, cliArgs, cliOut, calls>>

\* entry of runAll on object o whose commonConf dictionary is conf: the
\* attribute read, the required-file check and the return on its failure
runAllEnter(o, run) ==
    IF ~o.hasConf
    THEN /\ pc' = "crashed"
         /\ result' = "AttributeError"
         /\ cur' = [obj |-> o, run |-> run, all |-> TRUE]
         /\ trace' = <<>>
    ELSE IF checkForFiles(files, runAllRequired(o.own.base))
    THEN /\ pc' = runAllSequence[1]
         /\ result' = "pending"
         /\ cur' = [obj |-> o, run |-> run, all |-> TRUE]
         /\ trace' = <<>>
    ELSE /\ pc' = "idle"
         /\ result' = "None"
         /\ cur' = [obj |-> o, run |-> run, all |-> TRUE]
         /\ trace' = <<>>

\* the object with the dictionary it refers to resolved
Resolved(o, dflt) == [o EXCEPT !.own = commonConfOf(o, dflt, callerDicts)]

\* qA.runAll(run)
runAll(i, run) ==
    /\ InPython
    /\ calls < MaxCalls
    /\ calls' = calls + 1
    /\ i \in 1..Len(objects)
    /\ runAllEnter(Resolved(objects[i], defaultCommon), run)
    /\ UNCHANGED <<files, cfg, defaultCommon, callerDicts, objects,
                   srcMapsMissing,
                   argv, cliArgs, cliOut>>

Methods == {"runSelect", "runGTI", "runLTCube", "runExpMap", "runCCUBE",
            "runCMAP", "runExpCube", "generateXMLmodel", "runSrcMaps",
            "runModel", "writeConfig"}

\* qA.m(run) for one of the other methods
CallMethod(i, m, run) ==
    /\ InPython
    /\ calls < MaxCalls
    /\ calls' = calls + 1
    /\ i \in 1..Len(objects)
    /\ LET o == Resolved(objects[i], defaultCommon)
       IN  /\ cur' = [obj |-> o, run |-> run, all |-> FALSE]
           /\ trace' = <<>>
           /\ IF o.hasConf
              THEN pc' = m /\ result' = "pending"
              ELSE pc' = "crashed" /\ result' = "AttributeError"
    /\ UNCHANGED <<files, cfg, defaultCommon, callerDicts, objects,
                   srcMapsMissing,
                   argv, cliArgs, cliOut>>

\* ------------------------------------------------------- the method bodies
CurBase == cur.obj.own.base

\* the return of method m: on to the next step of runAll, or to the caller
Return(m) ==
    /\ pc' = NextStep(m, cur.obj.own.binned)
    /\ result' = IF NextStep(m, cur.obj.own.binned) = "idle" THEN "None"
                 ELSE result

\* a method that fills a parameter set and hands it to runCommand
ToolStep(m, tool, out) ==
    /\ pc = m
    /\ \E ok \in BOOLEAN :
         LET rc == runCommand(Append(trace, m), files, tool, out, cur.run, ok)
         IN  trace' = rc.trace /\ files' = rc.files
    /\ Return(m)
    /\ UNCHANGED <<cfg, defaultCommon, callerDicts, objects, cur,
                   srcMapsMissing,
                   argv, cliArgs, cliOut, calls>>

runSelect == ToolStep("runSelect", "gtselect", {})

runGTI == ToolStep("runGTI", "gtmktime", {<<CurBase, "_filtered_gti.fits">>})

runLTCube == ToolStep("runLTCube", "gtltcube", {<<CurBase, "_ltcube.fits">>})

runExpMap == ToolStep("runExpMap", "gtexpmap", {})

runCCUBE == ToolStep("runCCUBE", "gtbin", {<<CurBase, "_CCUBE.fits">>})

runCMAP == ToolStep("runCMAP", "gtbin", {})

\* runExpCube builds the gtexpcube2 command line and passes it to os.system
\* when run is true, else prints it
runExpCube ==
    /\ pc = "runExpCube"
    /\ \E ok \in BOOLEAN :
         /\ trace' = IF cur.run
                     THEN trace \o <<"runExpCube", "gtexpcube2">>
                     ELSE Append(trace, "runExpCube")
         /\ files' = IF cur.run /\ ok
                     THEN files \cup {<<CurBase, "_BinnedExpMap.fits">>}
                     ELSE files
    /\ Return("runExpCube")
    /\ UNCHANGED <<cfg, defaultCommon, callerDicts, objects, cur,
                   srcMapsMissing,
                   argv, cliArgs, cliOut, calls>>

\* the method generateXMLmodel: the quickUtils function, FileNotFound caught
generateXMLmodelFiles(fs, base) == utilsGenerateXMLmodel(fs, base).files

generateXMLmodel ==
    /\ pc = "generateXMLmodel"
    /\ trace' = Append(trace, "generateXMLmodel")
    /\ files' = generateXMLmodelFiles(files, CurBase)
    /\ Return("generateXMLmodel")
    /\ UNCHANGED <<cfg, defaultCommon, callerDicts, objects, cur,
                   srcMapsMissing,
                   argv, cliArgs, cliOut, calls>>

\* whether runSrcMaps goes on to gtsrcmaps, given the files it finds after
\* its call of generateXMLmodel
runSrcMapsProceeds(fs, base) == checkForFiles(fs, runSrcMapsRequired(base))

runSrcMaps ==
    /\ pc = "runSrcMaps"
    /\ LET fs1 == generateXMLmodelFiles(files, CurBase)
           tr1 == trace \o <<"runSrcMaps", "generateXMLmodel">>
       IN  IF runSrcMapsProceeds(fs1, CurBase)
           THEN \E ok \in BOOLEAN :
                  LET rc == runCommand(tr1, fs1, "gtsrcmaps", {}, cur.run, ok)
                  IN  /\ trace' = rc.trace
                      /\ files' = rc.files
                      /\ srcMapsMissing' = IF cur.run
                                           THEN runSrcMapsInputs(CurBase) \ fs1
                                           ELSE srcMapsMissing
           ELSE /\ trace' = tr1
                /\ files' = fs1
                /\ UNCHANGED srcMapsMissing
    /\ Return("runSrcMaps")
    /\ UNCHANGED <<cfg, defaultCommon, callerDicts, objects, cur, argv,
                   cliArgs, cliOut, calls>>

\* quickUtils.runModel fills the gtmodel parameters and runs the command
runModel == ToolStep("runModel", "gtmodel", {})

writeConfig ==
    /\ pc = "writeConfig"
    /\ trace' = Append(trace, "writeConfig")
    /\ cfg' = utilsWriteConfig(cfg, cur.obj.own)
    /\ Return("writeConfig")
    /\ UNCHANGED <<files, defaultCommon, callerDicts, objects, cur,
                   srcMapsMissing,
                   argv, cliArgs, cliOut, calls>>

\* --------------------------------------------------- command-line interface
\* the option letters of the getopt call
ShortOpts == {"c", "m"}

OptLetter(tok) == IF tok = "-c" THEN "c" ELSE IF tok = "-m" THEN "m" ELSE "M"

\* getopt.getopt(args, shortopts): options up to the first non-option
\* argument; an option letter that is not in shortopts is a getopt.error
RECURSIVE getoptRec(_, _)
getoptRec(args, opts) ==
    IF args = <<>> THEN [error |-> FALSE, opts |-> opts, args |-> args]
    ELSE IF Head(args) \in OptTokens
    THEN IF OptLetter(Head(args)) \in ShortOpts
         THEN getoptRec(Tail(args), Append(opts, Head(args)))
         ELSE [error |-> TRUE, opts |-> opts, args |-> args]
    ELSE [error |-> FALSE, opts |-> opts, args |-> args]

getopt(args) == getoptRec(args, <<>>)

\* the loop over opts: the first option that one of its branches handles
RECURSIVE cliBranch(_)
cliBranch(opts) ==
    IF opts = <<>> THEN "analysis"
    ELSE IF Head(opts) = "-c" THEN "-c"
    ELSE IF Head(opts) = "-M" THEN "-M"
    ELSE IF Head(opts) = "-m" THEN "-m"
    ELSE cliBranch(Tail(opts))

Tokens == Bases \cup OptTokens

ArgvSet == UNION {[1..n -> Tokens] : n \in 0..MaxArgs}

NotGiven == [given |-> FALSE, dict |-> "default", binned |-> FALSE]

\* the usage text and the tuple it is formatted with
UsagePlaceholders == 4
UsageArgs == 3

\* the % operator raises TypeError unless the tuple fills the placeholders
usageFormatRaises == UsagePlaceholders # UsageArgs

\* the handler of getopt.error and BadUsage: it formats and prints the
\* usage text; the TypeError of the formatting is not caught
cliUsage ==
    /\ cliOut' = "usage"
    /\ pc' = IF usageFormatRaises THEN "crashed" ELSE pc
    /\ UNCHANGED <<files, cfg, defaultCommon, cur, trace, cliArgs>>

\* cli() up to the loop over the basenames
cli(a) ==
    /\ InPython
    /\ objects = <<>> /\ result = "none"
    /\ argv' = a
    /\ LET g == getopt(a)
           b == cliBranch(g.opts)
       IN  IF g.error THEN cliUsage
           ELSE IF b = "-c"
           THEN LET r == quickAnalysisInit("example", FALSE, NotGiven,
                                           defaultCommon, callerDicts)
                    o == Resolved(r.obj, r.dflt)
                IN  /\ defaultCommon' = r.dflt
                    /\ cfg' = utilsWriteConfig(cfg, o.own)
                    /\ cur' = [NoCall EXCEPT !.obj = o, !.run = TRUE]
                    /\ trace' = <<"writeConfig">>
                    /\ cliOut' = "config"
                    /\ pc' = pc
                    /\ UNCHANGED <<files, cliArgs>>
           ELSE IF g.args = <<>> THEN cliUsage
           ELSE IF b = "-M"
           THEN LET r == quickAnalysisInit(a[2], FALSE, NotGiven,
                                           defaultCommon, callerDicts)
                    o == Resolved(r.obj, r.dflt)
                    rc == runCommand(<<"runModel">>, files, "gtmodel", {},
                                     TRUE, TRUE)
                IN  /\ defaultCommon' = r.dflt
                    /\ cur' = [NoCall EXCEPT !.obj = o, !.run = TRUE]
                    /\ trace' = rc.trace
                    /\ files' = rc.files
                    /\ cliOut' = "modelmap"
                    /\ pc' = pc
                    /\ UNCHANGED <<cfg, cliArgs>>
           ELSE IF b = "-m"
           THEN LET r == quickAnalysisInit(a[2], FALSE, NotGiven,
                                           defaultCommon, callerDicts)
                    o == Resolved(r.obj, r.dflt)
                IN  /\ defaultCommon' = r.dflt
                    /\ cur' = [NoCall EXCEPT !.obj = o, !.run = TRUE]
                    /\ trace' = <<"generateXMLmodel">>
                    /\ files' = generateXMLmodelFiles(files, o.own.base)
                    /\ cliOut' = "xml"
                    /\ pc' = pc
                    /\ UNCHANGED <<cfg, cliArgs>>
           ELSE /\ cliArgs' = g.args
                /\ cliOut' = "running"
                /\ pc' = pc
                /\ UNCHANGED <<files, cfg, defaultCommon, cur, trace>>
    /\ UNCHANGED <<callerDicts, objects, result, srcMapsMissing, calls>>

\* one turn of the loop: qA = quickAnalysis(arg, True); qA.runAll(True)
cliAnalyse ==
    /\ pc = "idle" /\ cliOut = "running"
    /\ cliArgs # <<>>
    /\ LET r == quickAnalysisInit(Head(cliArgs), TRUE, NotGiven, defaultCommon,
                                  callerDicts)
       IN  /\ defaultCommon' = r.dflt
           /\ runAllEnter(Resolved(r.obj, r.dflt), TRUE)
    /\ cliArgs' = Tail(cliArgs)
    /\ UNCHANGED <<files, cfg, callerDicts, objects, srcMapsMissing, argv,
                   cliOut, calls>>

\* the loop is over: cli() returns
cliReturn ==
    /\ pc = "idle" /\ cliOut = "running"
    /\ cliArgs = <<>>
    /\ cliOut' = "analysed"
    /\ UNCHANGED <<files, cfg, defaultCommon, callerDicts, objects, cur, pc,
                   trace, result,
                   srcMapsMissing, argv, cliArgs, calls>>

\* ------------------------------------------------------------ specification
\* the constructor calls a session that calls methods makes: with the
\* default dictionary, without and with a config file, or with the
\* caller's dictionary d1, which selects the binned analysis
CtorInputs == {<<cf, cc>> \in BOOLEAN \X CallerConfs :
                  /\ cf => ~cc.given
                  /\ cc.given => (cc.binned /\ cc.dict = "d1")}

\* the basenames a session that calls methods works on
SessionBases == {"srcA"}

Next ==
    \/ /\ Len(objects) < MaxObjects
       /\ \E b \in SessionBases, in \in CtorInputs : Construct(b, in[1], in[2])
    \/ \E i \in 1..MaxObjects, run \in BOOLEAN : runAll(i, run)
    \/ \E i \in 1..MaxObjects, m \in Methods, run \in BOOLEAN :
          CallMethod(i, m, run)
    \/ runSelect
    \/ runGTI
    \/ runLTCube
    \/ runExpMap
    \/ runCCUBE
    \/ runCMAP
    \/ runExpCube
    \/ generateXMLmodel
    \/ runSrcMaps
    \/ runModel
    \/ writeConfig
    \/ \E a \in ArgvSet : cli(a)
    \/ cliAnalyse
    \/ cliReturn

Spec == Init /\ [][Next]_vars

\* a session that only constructs objects, with any arguments
NextObjects ==
    /\ Len(objects) < MaxConstructed
    /\ \E b \in Bases, cf \in BOOLEAN, cc \in CallerConfs : Construct(b, cf, cc)

SpecObjects == Init /\ [][NextObjects]_vars

\* ------------------------------------------------------------------ claims
IsTool(e) == e \in Tools
ToolTrace == SelectSeq(trace, IsTool)

IsRunAllMethod(e) == e \in {"runSelect", "runGTI", "runLTCube", "runExpMap",
                            "runCCUBE", "runExpCube", "runSrcMaps"}
CallTrace == SelectSeq(trace, IsRunAllMethod)

IsBranchMethod(e) == e \in {"runExpMap", "runCCUBE", "runExpCube", "runSrcMaps"}
BranchCalls == SelectSeq(trace, IsBranchMethod)

IsPrefix(s, t) == Len(s) <= Len(t) /\ \A i \in 1..Len(s) : s[i] = t[i]

\* the call in progress or just returned is a runAll on a configured object
InRunAll == cur.all /\ cur.obj.hasConf

\* <base>.list and <base>_SC.fits exist (no step of the program creates or
\* removes them, so this is also their state when runAll was called)
StartFilesPresent ==
    /\ <<CurBase, ".list">> \in files
    /\ <<CurBase, "_SC.fits">> \in files

\* runAll has returned to its caller
RunAllReturned == cur.all /\ pc = "idle" /\ result = "None"

ModeTools == {"gtbin", "gtexpcube2", "gtsrcmaps", "gtexpmap"}

\* C1: with <base>.list and <base>_SC.fits present, a runAll call enters
\* runSelect, runGTI, runLTCube first and in that order, and when it runs the
\* tools (run true) it invokes gtselect, gtmktime, gtltcube exactly once each
\* in that order, every mode-specific tool coming only after all three.
C1_FixedSequence ==
    (InRunAll /\ StartFilesPresent) =>
        /\ \A i \in 1..Len(CallTrace) :
              /\ (i = 1) => CallTrace[i] = "runSelect"
              /\ (i = 2) => CallTrace[i] = "runGTI"
              /\ (i = 3) => CallTrace[i] = "runLTCube"
              /\ (i > 3) => IsBranchMethod(CallTrace[i])
        /\ cur.run =>
              /\ \A i \in 1..Len(ToolTrace) :
                    /\ (i = 1) => ToolTrace[i] = "gtselect"
                    /\ (i = 2) => ToolTrace[i] = "gtmktime"
                    /\ (i = 3) => ToolTrace[i] = "gtltcube"
                    /\ (i > 3) => ToolTrace[i] \in ModeTools
              /\ RunAllReturned => Len(ToolTrace) > 3

C1_Witness ==
    /\ InRunAll /\ StartFilesPresent /\ RunAllReturned /\ cur.run
    /\ ToolTrace = <<"gtselect", "gtmktime", "gtltcube", "gtbin",
                     "gtexpcube2", "gtsrcmaps">>

\* C2: when <base>.list or <base>_SC.fits is missing, a runAll call enters
\* no method and invokes no tool, and it ends at once.
C2_NoToolWithoutStartFiles ==
    (cur.all /\ ~StartFilesPresent) =>
        /\ trace = <<>>
        /\ pc \in {"idle", "crashed"}

C2_Witness ==
    /\ InRunAll /\ RunAllReturned /\ cur.run
    /\ <<CurBase, ".list">> \in files
    /\ <<CurBase, "_SC.fits">> \notin files
    /\ trace = <<>>

\* C3: a runAll call that finds a start file missing gives its caller a
\* FileNotFound exception.
C3_ReturnsException ==
    (InRunAll /\ pc = "idle" /\ result # "none" /\ ~StartFilesPresent) =>
        result = "FileNotFound"

\* C4: every constructed object's commonConf['base'] is the base it was
\* constructed with, whatever objects were constructed after it.
C4_KeepsOwnBase ==
    \A i \in 1..Len(objects) :
        objects[i].hasConf => commonConf(objects[i]).base = objects[i].base

\* C5: the command line '-M <basename>' ends with the model map generated,
\* not in the usage path.
C5_ModelMapOption ==
    (cliOut \notin {"none", "running"} /\ Len(argv) = 2
        /\ argv[1] = "-M" /\ argv[2] \in Bases) =>
        cliOut = "modelmap"

\* C6: in the command-line analysis path runAll only ever executes on an
\* object whose commonConf and analysisConf were set by the constructor.
C6_RunAllOnConfiguredObject ==
    (cliOut = "running" /\ cur.all) => cur.obj.hasConf

\* C7: every input file handed to gtsrcmaps exists when it is invoked.
C7_SrcMapsInputsExist == srcMapsMissing = {}

\* C8: a runAll call enters exactly the methods of the branch that
\* commonConf['binned'] selects, in order: runCCUBE, runExpCube, runSrcMaps
\* and never runExpMap when binned; runExpMap alone when not.
C8_OneBranch ==
    InRunAll =>
        IF cur.obj.own.binned
        THEN /\ IsPrefix(BranchCalls, <<"runCCUBE", "runExpCube", "runSrcMaps">>)
             /\ (RunAllReturned /\ StartFilesPresent) => Len(BranchCalls) > 2
        ELSE /\ IsPrefix(BranchCalls, <<"runExpMap">>)
             /\ (RunAllReturned /\ StartFilesPresent) => Len(BranchCalls) > 0

C8_Witness ==
    /\ InRunAll /\ RunAllReturned /\ StartFilesPresent /\ cur.obj.own.binned
    /\ BranchCalls = <<"runCCUBE", "runExpCube", "runSrcMaps">>

====
